---- MODULE Spec2Model ----
(***************************************************************************)
(* Model of the shiroha CLI (cmd/new.go, cmd/build.go, cmd/run.go):        *)
(*   - the Go-version resolution of createProjectStructure,                *)
(*   - compareGoVersion,                                                   *)
(*   - the scaffold (directory loop, template file writes),                *)
(*   - the build command,                                                  *)
(*   - the new command around the scaffold (prompt, go mod tidy, swag,     *)
(*     go run),                                                            *)
(*   - the run command.                                                    *)
(* Text is modelled as sequences of one-character strings, so that         *)
(* strings.TrimPrefix, strings.Split, fmt.Sscanf("%d") and the "+"         *)
(* concatenation of the source are computed character by character.        *)
(* Paths are sequences of path segments.                                   *)
(***************************************************************************)
EXTENDS Integers, Sequences, FiniteSets, TLC

(***************************************************************************)
(* Bounds of the model.                                                    *)
(***************************************************************************)
\* longest major/minor field of a detected version string
MaxFieldLen == 2
\* longest third (patch) field of a detected version string
MaxPatchLen == 1
\* largest major / minor number handed to compareGoVersion as text
MaxMajor == 10
MaxMinor == 19
\* invocations of createProjectStructure on the same tree
MaxRuns == 2
\* environment failures (mkdir / write errors) injected in one behaviour
MaxFaults == 1
\* foreign edits of generated files between invocations
MaxEdits == 1
\* longest text typed before the newline (or before the end of input)
MaxInputLen == 3

VARIABLES
    \* ---- createProjectStructure (cmd/new.go) ----
    name,            \* the project name argument
    runtimeVersion,  \* what runtime.Version() returns in this binary
    pc,              \* position inside createProjectStructure
    dirIdx,          \* index of the next entry of dirs
    fileIdx,         \* index of the next template file
    goVersion,       \* the local goVersion (text); <<>> before line 119
    dirsOnDisk,      \* set of directory paths that exist
    filesOnDisk,     \* function: path of an existing regular file -> content
    err,             \* the returned error, NoErr while none
    runs,            \* number of invocations started
    faults,          \* number of injected environment failures
    edits,           \* number of foreign edits
    startDirs,       \* dirsOnDisk when the current command started
    startFiles,      \* filesOnDisk when the current command started
    firstDone,       \* run number, goVersion and tree of the first invocation
                     \* that returned nil (NoneDone before)
    \* ---- compareGoVersion exercised on its own ----
    in1, in2,        \* the two (major, minor) number pairs
    v1, v2,          \* their texts "<major>.<minor>"
    cmpResult,       \* <<compareGoVersion(v1, v2)>>, <<>> before the call
    res1, res2,      \* resolution of "go<v1>.0" and "go<v2>.0"
    res1Again,       \* resolution of the text res1
    \* ---- the build command (cmd/build.go) ----
    stdin,           \* the characters waiting on standard input
    cwd,             \* the working directory of the process
    environ,         \* os.Environ(): a sequence of <<key, value>> entries
    bpc,             \* position inside buildCmd.RunE
    choice,          \* the local choice
    projectRoot,     \* the local projectRoot
    outputPath,      \* the local outputPath (path of the binary)
    invocations,     \* the subprocesses started by the command, in order
    results,         \* exit status and output of those that have ended
    bout,            \* the path the success message prints, <<>> before
    berr,            \* the error RunE returns, NoBuildErr while none
    \* ---- the new command (cmd/new.go, newCmd.RunE) ----
    npc,             \* position inside newCmd.RunE
    answer,          \* the local input after line 46, NoAnswer before
    warned,          \* the warning of line 71 has been printed
    nerr,            \* the error newCmd.RunE returns, NoBuildErr while none
    \* ---- the run command (cmd/run.go) ----
    rpc,             \* position inside runCmd.RunE
    rerr             \* the error runCmd.RunE returns, NoBuildErr while none

scaffoldVars == <<name, runtimeVersion, pc, dirIdx, fileIdx, goVersion,
                  dirsOnDisk, filesOnDisk, err, runs, faults, edits,
                  startDirs, startFiles, firstDone>>
compareVars == <<in1, in2, v1, v2, cmpResult, res1, res2, res1Again>>
buildVars == <<stdin, cwd, environ, bpc, choice, projectRoot, outputPath,
               invocations, results, bout, berr>>
newVars == <<npc, answer, warned, nerr>>
runVars == <<rpc, rerr>>
vars == <<scaffoldVars, compareVars, buildVars, newVars, runVars>>

NoErr == [op |-> "none"]
NoBuildErr == [kind |-> "none"]
NoAnswer == <<"?">>

(***************************************************************************)
(* Text helpers.                                                           *)
(***************************************************************************)
DigitChars == <<"0", "1", "2", "3", "4", "5", "6", "7", "8", "9">>

IsDigit(c) == \E i \in 1..10 : DigitChars[i] = c

DigitVal(c) == (CHOOSE i \in 1..10 : DigitChars[i] = c) - 1

\* strings.TrimPrefix(s, prefix)
TrimPrefix(s, prefix) ==
    IF Len(s) >= Len(prefix) /\ SubSeq(s, 1, Len(prefix)) = prefix
    THEN SubSeq(s, Len(prefix) + 1, Len(s))
    ELSE s

\* strings.Split(s, "."): the fields between the dots, at least one field
RECURSIVE SplitDot(_)
SplitDot(s) ==
    IF \E i \in 1..Len(s) : s[i] = "."
    THEN LET i == CHOOSE k \in 1..Len(s) :
                     s[k] = "." /\ \A j \in 1..(k - 1) : s[j] # "."
         IN  <<SubSeq(s, 1, i - 1)>> \o SplitDot(SubSeq(s, i + 1, Len(s)))
    ELSE <<s>>

\* the longest prefix of s made of decimal digits
RECURSIVE DigitPrefix(_)
DigitPrefix(s) ==
    IF s # <<>> /\ IsDigit(s[1])
    THEN <<s[1]>> \o DigitPrefix(Tail(s))
    ELSE <<>>

\* the number a sequence of decimal digits denotes
RECURSIVE DecVal(_)
DecVal(ds) ==
    IF ds = <<>> THEN 0
    ELSE 10 * DecVal(SubSeq(ds, 1, Len(ds) - 1)) + DigitVal(ds[Len(ds)])

\* fmt.Sscanf(field, "%d", &x) with x == 0 before the call: the leading run
\* of digits is converted, what follows it is ignored, and x stays 0 when
\* the field does not start with a digit.  (Fields of this model carry no
\* sign, blank or underscore and are far shorter than the 19 digits of an
\* int, so those branches of the scanner are not reached.)
ScanInt(field) ==
    IF DigitPrefix(field) = <<>> THEN 0 ELSE DecVal(DigitPrefix(field))

\* the decimal text of a natural number (used to produce inputs)
RECURSIVE Itoa(_)
Itoa(n) ==
    IF n < 10 THEN <<DigitChars[n + 1]>>
    ELSE Itoa(n \div 10) \o <<DigitChars[(n % 10) + 1]>>

(***************************************************************************)
(* compareGoVersion and the version block of createProjectStructure.       *)
(***************************************************************************)
\* the text "1.18" of lines 126, 129 and 130
MinGoVersion == <<"1", ".", "1", "8">>

GoPrefix == <<"g", "o">>

\* the closure parse of compareGoVersion
parse(v) ==
    LET parts == SplitDot(v)
    IN  << IF Len(parts) >= 1 THEN ScanInt(parts[1]) ELSE 0,
           IF Len(parts) >= 2 THEN ScanInt(parts[2]) ELSE 0 >>

\* the order of the code points of two characters of the model's alphabet
CharCode(c) == IF IsDigit(c) THEN 48 + DigitVal(c) ELSE 120

\* a[i..] against b[i..] as strings: -1, 0 or 1
RECURSIVE StrCmp(_, _)
StrCmp(a, b) ==
    IF a = <<>> /\ b = <<>> THEN 0
    ELSE IF a = <<>> THEN -1
    ELSE IF b = <<>> THEN 1
    ELSE IF CharCode(a[1]) < CharCode(b[1]) THEN -1
    ELSE IF CharCode(a[1]) > CharCode(b[1]) THEN 1
    ELSE StrCmp(Tail(a), Tail(b))

\* compareGoVersion comparing the fields as strings instead of scanning them
compareGoVersionLexical(a, b) ==
    LET pa == SplitDot(a) \o <<<<>>>>
        pb == SplitDot(b) \o <<<<>>>>
    IN  IF StrCmp(pa[1], pb[1]) # 0
        THEN StrCmp(pa[1], pb[1])
        ELSE StrCmp(pa[2], pb[2])

\* compareGoVersion deciding on the minor numbers alone
compareGoVersionMinorOnly(a, b) ==
    IF parse(a)[2] < parse(b)[2] THEN -1
    ELSE IF parse(a)[2] > parse(b)[2] THEN 1
    ELSE 0

compareGoVersion(a, b) ==
    LET m1 == parse(a)[1]
        n1 == parse(a)[2]
        m2 == parse(b)[1]
        n2 == parse(b)[2]
    IN  IF m1 # m2
        THEN (IF m1 < m2 THEN -1 ELSE 1)
        ELSE IF n1 < n2 THEN -1
             ELSE IF n1 > n2 THEN 1
             ELSE 0

\* the version block without the comparison of lines 129-131
ResolveGoVersionNoClamp(rv) ==
    LET parts == SplitDot(TrimPrefix(rv, GoPrefix))
    IN  IF Len(parts) >= 2
        THEN parts[1] \o <<".">> \o parts[2]
        ELSE MinGoVersion

\* lines 119-131: from runtime.Version() to the text put after "go " in go.mod
ResolveGoVersion(rv) ==
    LET trimmed == TrimPrefix(rv, GoPrefix)
        parts   == SplitDot(trimmed)
        joined  == IF Len(parts) >= 2
                   THEN parts[1] \o <<".">> \o parts[2]
                   ELSE MinGoVersion
    IN  IF compareGoVersion(joined, MinGoVersion) < 0
        THEN MinGoVersion
        ELSE joined

(***************************************************************************)
(* Inputs.                                                                 *)
(***************************************************************************)
SeqsUpTo(A, n) == UNION {[1..k -> A] : k \in 0..n}

\* characters a field of a detected version string is made of
FieldAlphabet == {"1", "8", "9", "x"}

\* characters of the third field
PatchAlphabet == {"1", "x"}

Fields == SeqsUpTo(FieldAlphabet, MaxFieldLen)

PatchFields == SeqsUpTo(PatchAlphabet, MaxPatchLen)

\* detected version strings: an optional "go", then one, two or three fields
VersionBodies ==
    Fields
    \cup {f1 \o <<".">> \o f2 : f1 \in Fields, f2 \in Fields}
    \cup {b \o <<".">> \o p :
            b \in {f1 \o <<".">> \o f2 : f1 \in Fields, f2 \in Fields},
            p \in PatchFields}

DetectedStrings ==
    {pre \o body : pre \in {<<>>, GoPrefix}, body \in VersionBodies}

\* the values of runtime.Version() the scaffold runs are explored with:
\* go1.9.1 and go1.21.8 (the version block is explored on DetectedStrings)
RuntimeVersions ==
    { <<"g", "o", "1", ".", "9", ".", "1">>,
      <<"g", "o", "1", ".", "2", "1", ".", "8">> }

ProjectNames == {"demo", "shop"}

(***************************************************************************)
(* createProjectStructure: the directory manifest and the template set.    *)
(***************************************************************************)
\* lines 93-109 without the entry of line 101
dirsWithoutRouter ==
    << <<"cmd">>,
       <<"internal", "database">>,
       <<"internal", "handler">>,
       <<"internal", "model">>,
       <<"internal", "repository">>,
       <<"internal", "request">>,
       <<"internal", "response">>,
       <<"internal", "service">>,
       <<"pkg", "common">>,
       <<"pkg", "jwt">>,
       <<"pkg", "utils">>,
       <<"config">>,
       <<"sql">>,
       <<"docs">> >>

\* lines 93-109
dirs ==
    << <<"cmd">>,
       <<"internal", "database">>,
       <<"internal", "handler">>,
       <<"internal", "model">>,
       <<"internal", "repository">>,
       <<"internal", "request">>,
       <<"internal", "response">>,
       <<"internal", "router">>,
       <<"internal", "service">>,
       <<"pkg", "common">>,
       <<"pkg", "jwt">>,
       <<"pkg", "utils">>,
       <<"config">>,
       <<"sql">>,
       <<"docs">> >>

\* The os.WriteFile calls of lines 147-311 in program order: the path joined
\* to name, the path the error message names, and what the content
\* substitutes (usesName: the project name; usesVersion: goVersion).
templates ==
    << [path |-> <<"go.mod">>, msg |-> <<"go.mod">>,
        usesName |-> TRUE, usesVersion |-> TRUE],
       [path |-> <<"cmd", "server.go">>, msg |-> <<"cmd", "server.go">>,
        usesName |-> TRUE, usesVersion |-> FALSE],
       [path |-> <<"internal", "handler", "test_handler.go">>,
        msg |-> <<"internal", "handler", "test_handler.go">>,
        usesName |-> FALSE, usesVersion |-> FALSE],
       [path |-> <<"internal", "router", "main_router.go">>,
        msg |-> <<"internal", "router", "main_router.go">>,
        usesName |-> FALSE, usesVersion |-> FALSE],
       [path |-> <<"README.md">>, msg |-> <<"README.md">>,
        usesName |-> TRUE, usesVersion |-> FALSE],
       [path |-> <<"config.yaml">>, msg |-> <<"config.yaml">>,
        usesName |-> FALSE, usesVersion |-> FALSE],
       [path |-> <<"config", "config.go">>, msg |-> <<"config", "config.go">>,
        usesName |-> FALSE, usesVersion |-> FALSE] >>

\* filepath.Join(name, rel) for a one-segment name and a clean relative path
Join(n, rel) == <<n>> \o rel

\* the directory a path lies in
Parent(p) == SubSeq(p, 1, Len(p) - 1)

\* the path and every ancestor of it, as os.MkdirAll walks them
Prefixes(p) == {SubSeq(p, 1, k) : k \in 1..Len(p)}

\* the content fmt.Sprintf renders for template i: the template's identity
\* and the values substituted into it
Render(i, n, gv) ==
    [tpl     |-> templates[i].path,
     module  |-> IF templates[i].usesName THEN n ELSE "",
     version |-> IF templates[i].usesVersion THEN gv ELSE <<>>]

\* a file that os.WriteFile opened (created or truncated) and failed to fill
Truncated == [tpl |-> <<>>, module |-> "", version |-> <<>>]

\* content that somebody else put into a file
Foreign == [tpl |-> <<"?">>, module |-> "", version |-> <<>>]

\* f with path p holding content c
WithFile(f, p, c) ==
    [q \in (DOMAIN f) \cup {p} |-> IF q = p THEN c ELSE f[q]]

NoFiles == [q \in {} |-> Truncated]

NoneDone == [run |-> 0, version |-> <<>>, tree |-> <<{}, NoFiles>>]

(***************************************************************************)
(* createProjectStructure, one action per call that touches the disk.      *)
(***************************************************************************)
AllDirs(n) == UNION {Prefixes(Join(n, dirs[i])) : i \in 1..Len(dirs)}

\* the loop of lines 111-116 made with os.Mkdir: an existing directory is
\* an error
MkdirOkExclusive ==
    /\ pc = "dirs"
    /\ IF Join(name, dirs[dirIdx]) \in dirsOnDisk
       THEN /\ err' = [op |-> "mkdir", path |-> Join(name, dirs[dirIdx]),
                       cause |-> "exists"]
            /\ pc' = "error"
            /\ UNCHANGED <<dirsOnDisk, dirIdx>>
       ELSE /\ dirsOnDisk' = dirsOnDisk \cup Prefixes(Join(name, dirs[dirIdx]))
            /\ dirIdx' = dirIdx + 1
            /\ pc' = IF dirIdx = Len(dirs) THEN "version" ELSE "dirs"
            /\ err' = err
    /\ UNCHANGED <<name, runtimeVersion, fileIdx, goVersion, filesOnDisk,
                   runs, faults, edits, startDirs, startFiles, firstDone,
                   compareVars, buildVars, newVars,
                   runVars>>

\* lines 111-116, one iteration whose os.MkdirAll returns nil: the path and
\* its missing ancestors exist afterwards, existing ones are accepted
MkdirOk ==
    /\ pc = "dirs"
    /\ dirsOnDisk' = dirsOnDisk \cup Prefixes(Join(name, dirs[dirIdx]))
    /\ dirIdx' = dirIdx + 1
    /\ pc' = IF dirIdx = Len(dirs) THEN "version" ELSE "dirs"
    /\ UNCHANGED <<name, runtimeVersion, fileIdx, goVersion, filesOnDisk, err,
                   runs, faults, edits, startDirs, startFiles, firstDone,
                   compareVars, buildVars, newVars,
                   runVars>>

\* the loop of lines 111-116 dropping the error of os.MkdirAll
MkdirFailIgnored ==
    /\ pc = "dirs"
    /\ faults < MaxFaults
    /\ dirIdx' = dirIdx + 1
    /\ pc' = IF dirIdx = Len(dirs) THEN "version" ELSE "dirs"
    /\ faults' = faults + 1
    /\ UNCHANGED <<name, runtimeVersion, fileIdx, goVersion, dirsOnDisk,
                   filesOnDisk, err, runs, edits, startDirs, startFiles,
                   firstDone, compareVars, buildVars, newVars,
                   runVars>>

\* the loop of lines 111-116 removing what it made when os.MkdirAll fails
MkdirFailRollback ==
    /\ pc = "dirs"
    /\ faults < MaxFaults
    /\ dirsOnDisk' = startDirs
    /\ err' = [op |-> "mkdir", path |-> Join(name, dirs[dirIdx]),
               cause |-> "env"]
    /\ pc' = "error"
    /\ faults' = faults + 1
    /\ UNCHANGED <<name, runtimeVersion, dirIdx, fileIdx, goVersion,
                   filesOnDisk, runs, edits, startDirs, startFiles, firstDone,
                   compareVars, buildVars, newVars,
                   runVars>>

\* lines 111-116, one iteration whose os.MkdirAll fails at its k-th path
\* component: the shorter ancestors have been made, the function returns
\* "failed to create directory <fullPath>"
MkdirFail ==
    /\ pc = "dirs"
    /\ faults < MaxFaults
    /\ LET fullPath == Join(name, dirs[dirIdx])
       IN  \E k \in 1..Len(fullPath) :
             /\ dirsOnDisk' = dirsOnDisk
                                \cup {SubSeq(fullPath, 1, j) : j \in 1..(k - 1)}
             /\ err' = [op |-> "mkdir", path |-> fullPath, cause |-> "env"]
    /\ pc' = "error"
    /\ faults' = faults + 1
    /\ UNCHANGED <<name, runtimeVersion, dirIdx, fileIdx, goVersion,
                   filesOnDisk, runs, edits, startDirs, startFiles, firstDone,
                   compareVars, buildVars, newVars,
                   runVars>>

\* lines 119-131
ResolveVersion ==
    /\ pc = "version"
    /\ goVersion' = ResolveGoVersion(runtimeVersion)
    /\ pc' = "files"
    /\ UNCHANGED <<name, runtimeVersion, dirIdx, fileIdx, dirsOnDisk,
                   filesOnDisk, err, runs, faults, edits, startDirs,
                   startFiles, firstDone, compareVars, buildVars, newVars,
                   runVars>>

\* one os.WriteFile call of lines 147-311 that the environment lets through:
\* it creates or truncates the file and stores the rendered content; it
\* fails with ENOENT when the directory of the file does not exist
WriteFileOk ==
    /\ pc = "files"
    /\ LET path == Join(name, templates[fileIdx].path)
       IN  IF Parent(path) \in dirsOnDisk
           THEN /\ filesOnDisk' = WithFile(filesOnDisk, path,
                                           Render(fileIdx, name, goVersion))
                /\ fileIdx' = fileIdx + 1
                /\ pc' = IF fileIdx = Len(templates) THEN "done" ELSE "files"
                /\ err' = err
                /\ firstDone' = IF /\ fileIdx = Len(templates)
                                   /\ firstDone = NoneDone
                                THEN [run |-> runs, version |-> goVersion,
                                      tree |-> <<dirsOnDisk, filesOnDisk'>>]
                                ELSE firstDone
           ELSE /\ err' = [op |-> "write", path |-> templates[fileIdx].msg,
                           cause |-> "noparent"]
                /\ pc' = "error"
                /\ UNCHANGED <<filesOnDisk, fileIdx, firstDone>>
    /\ UNCHANGED <<name, runtimeVersion, dirIdx, goVersion, dirsOnDisk, runs,
                   faults, edits, startDirs, startFiles,
                   compareVars, buildVars, newVars,
                   runVars>>

\* a failing os.WriteFile followed by the removal of the files written so far
WriteFileFailRollback ==
    /\ pc = "files"
    /\ faults < MaxFaults
    /\ filesOnDisk' = startFiles
    /\ err' = [op |-> "write", path |-> templates[fileIdx].msg, cause |-> "env"]
    /\ pc' = "error"
    /\ faults' = faults + 1
    /\ UNCHANGED <<name, runtimeVersion, dirIdx, fileIdx, goVersion,
                   dirsOnDisk, runs, edits, startDirs, startFiles, firstDone,
                   compareVars, buildVars, newVars,
                   runVars>>

\* one os.WriteFile call that fails in the environment: either the open
\* fails and the file is as before, or the file was created or truncated and
\* the write fails; the function returns "failed to write <file>"
WriteFileFail ==
    /\ pc = "files"
    /\ faults < MaxFaults
    /\ LET path == Join(name, templates[fileIdx].path)
       IN  \/ filesOnDisk' = filesOnDisk
           \/ /\ Parent(path) \in dirsOnDisk
              /\ filesOnDisk' = WithFile(filesOnDisk, path, Truncated)
    /\ err' = [op |-> "write", path |-> templates[fileIdx].msg, cause |-> "env"]
    /\ pc' = "error"
    /\ faults' = faults + 1
    /\ UNCHANGED <<name, runtimeVersion, dirIdx, fileIdx, goVersion,
                   dirsOnDisk, runs, edits, startDirs, startFiles, firstDone,
                   compareVars, buildVars, newVars,
                   runVars>>

\* 'shiroha new <name>' is run again in the same directory, possibly by a
\* binary built with another Go release
Rescaffold ==
    /\ pc \in {"done", "error", "idle"}
    /\ runs < MaxRuns
    /\ runtimeVersion' \in RuntimeVersions
    /\ pc' = "dirs"
    /\ dirIdx' = 1
    /\ fileIdx' = 1
    /\ goVersion' = <<>>
    /\ err' = NoErr
    /\ runs' = runs + 1
    /\ startDirs' = dirsOnDisk
    /\ startFiles' = filesOnDisk
    /\ UNCHANGED <<name, dirsOnDisk, filesOnDisk, faults, edits, firstDone,
                   compareVars, buildVars, newVars,
                   runVars>>

\* after an invocation has returned (pc becomes "idle": nothing is running)
\* somebody rewrites or creates a file of the project
EditFile ==
    /\ pc \in {"done", "error", "idle"}
    /\ pc' = "idle"
    /\ edits < MaxEdits
    /\ \E i \in 1..Len(templates) :
         /\ Parent(Join(name, templates[i].path)) \in dirsOnDisk
         /\ filesOnDisk' = WithFile(filesOnDisk, Join(name, templates[i].path),
                                    Foreign)
    /\ edits' = edits + 1
    /\ UNCHANGED <<name, runtimeVersion, dirIdx, fileIdx, goVersion,
                   dirsOnDisk, err, runs, faults, startDirs, startFiles,
                   firstDone, compareVars, buildVars, newVars,
                   runVars>>

CompareIdle ==
    /\ in1 = <<0, 0>> /\ in2 = <<0, 0>>
    /\ v1 = <<>> /\ v2 = <<>>
    /\ cmpResult = <<>>
    /\ res1 = <<>> /\ res2 = <<>> /\ res1Again = <<>>

BuildIdle ==
    /\ stdin = <<>>
    /\ cwd = <<>>
    /\ environ = <<>>
    /\ bpc = "idle"
    /\ choice = <<>>
    /\ projectRoot = <<>>
    /\ outputPath = <<>>
    /\ invocations = <<>>
    /\ results = <<>>
    /\ bout = <<>>
    /\ berr = NoBuildErr

NewIdle ==
    /\ npc = "idle"
    /\ answer = NoAnswer
    /\ warned = FALSE
    /\ nerr = NoBuildErr

RunIdle ==
    /\ rpc = "idle"
    /\ rerr = NoBuildErr

\* 'shiroha new <name>' has just called createProjectStructure in an empty
\* directory
Init ==
    /\ name \in ProjectNames
    /\ runtimeVersion \in RuntimeVersions
    /\ pc = "dirs"
    /\ dirIdx = 1
    /\ fileIdx = 1
    /\ goVersion = <<>>
    /\ dirsOnDisk = {}
    /\ filesOnDisk = NoFiles
    /\ err = NoErr
    /\ runs = 1
    /\ faults = 0
    /\ edits = 0
    /\ startDirs = {}
    /\ startFiles = NoFiles
    /\ firstDone = NoneDone
    /\ CompareIdle
    /\ BuildIdle
    /\ NewIdle
    /\ RunIdle

Next ==
    \/ MkdirOk
    \/ MkdirFail
    \/ ResolveVersion
    \/ WriteFileOk
    \/ WriteFileFail
    \/ Rescaffold
    \/ EditFile

Spec == Init /\ [][Next]_vars

(***************************************************************************)
(* The version block on its own: createProjectStructure stands at line 118 *)
(* of its first invocation, every directory made, and runtime.Version()    *)
(* is any of the detected strings; the run goes on through the version     *)
(* block and the write of go.mod.                                          *)
(***************************************************************************)
InitResolve ==
    /\ name \in ProjectNames
    /\ runtimeVersion \in DetectedStrings
    /\ pc = "version"
    /\ dirIdx = Len(dirs) + 1
    /\ fileIdx = 1
    /\ goVersion = <<>>
    /\ dirsOnDisk = AllDirs(name)
    /\ filesOnDisk = NoFiles
    /\ err = NoErr
    /\ runs = 1
    /\ faults = 0
    /\ edits = 0
    /\ startDirs = {}
    /\ startFiles = NoFiles
    /\ firstDone = NoneDone
    /\ CompareIdle
    /\ BuildIdle
    /\ NewIdle
    /\ RunIdle

NextResolve ==
    \/ ResolveVersion
    \/ (fileIdx = 1 /\ WriteFileOk)
    \/ (fileIdx = 1 /\ WriteFileFail)

SpecResolve == InitResolve /\ [][NextResolve]_vars

(***************************************************************************)
(* compareGoVersion and the version block applied to pairs of well-formed  *)
(* versions: the numbers in1 and in2 are written out in decimal.           *)
(***************************************************************************)
VersionText(p) == Itoa(p[1]) \o <<".">> \o Itoa(p[2])

NumberPairs == (0..MaxMajor) \X (0..MaxMinor)

ScaffoldIdle(onDisk) ==
    /\ name = "demo"
    /\ runtimeVersion = <<>>
    /\ pc = "idle"
    /\ dirIdx = 1
    /\ fileIdx = 1
    /\ goVersion = <<>>
    /\ dirsOnDisk = onDisk
    /\ filesOnDisk = NoFiles
    /\ err = NoErr
    /\ runs = 0
    /\ faults = 0
    /\ edits = 0
    /\ startDirs = onDisk
    /\ startFiles = NoFiles
    /\ firstDone = NoneDone

InitCompare ==
    /\ ScaffoldIdle({})
    /\ BuildIdle
    /\ NewIdle
    /\ RunIdle
    /\ in1 \in NumberPairs
    /\ in2 \in NumberPairs
    /\ v1 = VersionText(in1)
    /\ v2 = VersionText(in2)
    /\ cmpResult = <<>>
    /\ res1 = <<>> /\ res2 = <<>> /\ res1Again = <<>>

\* compareGoVersion(v1, v2) is called
CompareStep ==
    /\ cmpResult = <<>>
    /\ cmpResult' = <<compareGoVersion(v1, v2)>>
    /\ UNCHANGED <<scaffoldVars, buildVars, newVars, runVars, in1, in2, v1,
                   v2, res1, res2, res1Again>>

\* the version block runs on "go<v1>.0" and on "go<v2>.0"
ResolvePairStep ==
    /\ res1 = <<>>
    /\ res1' = ResolveGoVersion(GoPrefix \o v1 \o <<".", "0">>)
    /\ res2' = ResolveGoVersion(GoPrefix \o v2 \o <<".", "0">>)
    /\ UNCHANGED <<scaffoldVars, buildVars, newVars, runVars, in1, in2, v1,
                   v2, cmpResult, res1Again>>

\* the version block runs on its own result
ResolveAgainStep ==
    /\ res1 # <<>>
    /\ res1Again = <<>>
    /\ res1Again' = ResolveGoVersion(res1)
    /\ UNCHANGED <<scaffoldVars, buildVars, newVars, runVars, in1, in2, v1,
                   v2, cmpResult, res1, res2>>

NextCompare ==
    \/ CompareStep
    \/ ResolvePairStep
    \/ ResolveAgainStep

SpecCompare == InitCompare /\ [][NextCompare]_vars

(***************************************************************************)
(* The build command (cmd/build.go).                                       *)
(***************************************************************************)
\* lines 15-21; the keys are texts of one character
platforms ==
    (<<"1">> :> [os |-> "linux",   arch |-> "amd64"]) @@
    (<<"2">> :> [os |-> "linux",   arch |-> "arm64"]) @@
    (<<"3">> :> [os |-> "darwin",  arch |-> "amd64"]) @@
    (<<"4">> :> [os |-> "darwin",  arch |-> "arm64"]) @@
    (<<"5">> :> [os |-> "windows", arch |-> "amd64"])

IsSpace(c) == c \in {" ", "\n", "\t", "\r"}

\* strings.TrimSpace
RECURSIVE TrimLeft(_)
TrimLeft(s) == IF s # <<>> /\ IsSpace(s[1]) THEN TrimLeft(Tail(s)) ELSE s

RECURSIVE TrimRight(_)
TrimRight(s) ==
    IF s # <<>> /\ IsSpace(s[Len(s)])
    THEN TrimRight(SubSeq(s, 1, Len(s) - 1))
    ELSE s

TrimSpace(s) == TrimRight(TrimLeft(s))

HasNewline(s) == \E i \in 1..Len(s) : s[i] = "\n"

\* reader.ReadString('\n') on input that holds a newline: the text up to and
\* including the first newline
ReadLine(s) ==
    SubSeq(s, 1, CHOOSE k \in 1..Len(s) :
                     s[k] = "\n" /\ \A j \in 1..(k - 1) : s[j] # "\n")

\* filepath.Base and filepath.Dir of an absolute path of two or more segments
Base(p) == p[Len(p)]

Dir(p) == SubSeq(p, 1, Len(p) - 1)

\* lines 37-48 without the check of line 46: an unknown key goes on
BuildReadChoiceUnchecked ==
    /\ bpc = "read"
    /\ IF ~HasNewline(stdin)
       THEN /\ berr' = [kind |-> "failed to read input"]
            /\ bpc' = "failed"
            /\ stdin' = <<>>
            /\ choice' = choice
       ELSE /\ stdin' = SubSeq(stdin, Len(ReadLine(stdin)) + 1, Len(stdin))
            /\ choice' = TrimSpace(ReadLine(stdin))
            /\ bpc' = "getwd"
            /\ berr' = berr
    /\ UNCHANGED <<cwd, environ, projectRoot, outputPath, invocations,
                   scaffoldVars, compareVars, newVars,
                   runVars, results, bout>>

\* lines 37-48: the line is read, trimmed and looked up; EOF before a
\* newline is a read error, an unknown key is "invalid choice: <choice>,
\* please enter 1-<len(platforms)>"
BuildReadChoice ==
    /\ bpc = "read"
    /\ IF ~HasNewline(stdin)
       THEN /\ berr' = [kind |-> "failed to read input"]
            /\ bpc' = "failed"
            /\ stdin' = <<>>
            /\ choice' = choice
       ELSE /\ stdin' = SubSeq(stdin, Len(ReadLine(stdin)) + 1, Len(stdin))
            /\ choice' = TrimSpace(ReadLine(stdin))
            /\ IF choice' \in DOMAIN platforms
               THEN bpc' = "getwd" /\ berr' = berr
               ELSE /\ berr' = [kind |-> "invalid choice", choice |-> choice',
                                low |-> 1,
                                high |-> Cardinality(DOMAIN platforms)]
                    /\ bpc' = "failed"
    /\ UNCHANGED <<cwd, environ, projectRoot, outputPath, invocations,
                   scaffoldVars, compareVars, newVars,
                   runVars, results, bout>>

\* lines 51-61 and 75 without lines 64-67: the name never gets .exe
BuildResolveRootNoExe ==
    /\ bpc = "getwd"
    /\ projectRoot' = IF Base(cwd) = "cmd" THEN Dir(cwd) ELSE cwd
    /\ outputPath' = projectRoot' \o
                       << "bin", [base |-> Base(projectRoot'), ext |-> ""] >>
    /\ bpc' = "mkdir"
    /\ UNCHANGED <<stdin, cwd, environ, choice, invocations, berr,
                   scaffoldVars, compareVars, newVars,
                   runVars, results, bout>>

\* lines 51-67 and 75: os.Getwd succeeds; a working directory called cmd is
\* replaced by its parent; the binary is <root>/bin/<base(root)>, with .exe
\* for windows
BuildResolveRoot ==
    /\ bpc = "getwd"
    /\ projectRoot' = IF Base(cwd) = "cmd" THEN Dir(cwd) ELSE cwd
    /\ outputPath' = projectRoot' \o
                       << "bin",
                          [base |-> Base(projectRoot'),
                           ext  |-> IF platforms[choice].os = "windows"
                                    THEN ".exe" ELSE ""] >>
    /\ bpc' = "mkdir"
    /\ UNCHANGED <<stdin, cwd, environ, choice, invocations, berr,
                   scaffoldVars, compareVars, newVars,
                   runVars, results, bout>>

\* lines 51-54: os.Getwd fails
BuildGetwdFail ==
    /\ bpc = "getwd"
    /\ berr' = [kind |-> "failed to get current directory"]
    /\ bpc' = "failed"
    /\ UNCHANGED <<stdin, cwd, environ, choice, projectRoot, outputPath,
                   invocations, scaffoldVars, compareVars, newVars,
                   runVars, results, bout>>

\* lines 70-73: os.MkdirAll(<root>/bin) succeeds
BuildMkdirOk ==
    /\ bpc = "mkdir"
    /\ dirsOnDisk' = dirsOnDisk \cup Prefixes(projectRoot \o <<"bin">>)
    /\ bpc' = "compile"
    /\ UNCHANGED <<name, runtimeVersion, pc, dirIdx, fileIdx, goVersion,
                   filesOnDisk, err, runs, faults, edits, startDirs,
                   startFiles, firstDone, compareVars, stdin, cwd, environ,
                   choice, projectRoot, outputPath, invocations, berr, newVars,
                   runVars, results, bout>>

\* lines 70-73 with the error of os.MkdirAll dropped: the build goes on
BuildMkdirFailIgnored ==
    /\ bpc = "mkdir"
    /\ bpc' = "compile"
    /\ UNCHANGED <<stdin, cwd, environ, choice, projectRoot, outputPath,
                   invocations, berr, scaffoldVars, compareVars, newVars,
                   runVars, results, bout>>

\* lines 70-73: os.MkdirAll(<root>/bin) fails
BuildMkdirFail ==
    /\ bpc = "mkdir"
    /\ berr' = [kind |-> "failed to create bin directory"]
    /\ bpc' = "failed"
    /\ UNCHANGED <<stdin, cwd, environ, choice, projectRoot, outputPath,
                   invocations, scaffoldVars, compareVars, newVars,
                   runVars, results, bout>>

\* the subprocess of lines 79-89 with the two entries put in front of the
\* inherited environment
CompilerCallPrepend ==
    [argv |-> <<"go", "build", "-o", outputPath, <<".", "cmd", "server.go">> >>,
     dir  |-> cwd,
     env  |-> << <<"GOOS", platforms[choice].os>>,
                 <<"GOARCH", platforms[choice].arch>> >> \o environ]

\* the subprocess of lines 79-89: go build -o <outputPath> ./cmd/server.go,
\* started in the working directory of the process (no Dir is set), with
\* the inherited environment followed by GOOS and GOARCH; the source
\* argument is the relative path ./cmd/server.go, kept as its segments
CompilerCall ==
    [argv |-> <<"go", "build", "-o", outputPath, <<".", "cmd", "server.go">> >>,
     dir  |-> cwd,
     env  |-> environ \o << <<"GOOS", platforms[choice].os>>,
                            <<"GOARCH", platforms[choice].arch>> >>]

\* what a subprocess can end with: its exit status and what it has written
\* to stdout and stderr
ExitStatuses == {0, 1}

Outputs == {"", "output"}

\* lines 79-98: the compiler runs; CombinedOutput returns its output and an
\* error unless it exits with status 0; the error of line 93 holds both, the
\* message of line 97 holds outputPath
BuildCompile ==
    /\ bpc = "compile"
    /\ invocations' = Append(invocations, CompilerCall)
    /\ \E exit \in ExitStatuses, output \in Outputs :
         /\ results' = Append(results, [exit |-> exit, output |-> output])
         /\ IF exit = 0
            THEN bpc' = "done" /\ berr' = berr /\ bout' = outputPath
            ELSE /\ berr' = [kind |-> "build failed", exit |-> exit,
                             output |-> output]
                 /\ bpc' = "failed"
                 /\ bout' = bout
    /\ UNCHANGED <<stdin, cwd, environ, choice, projectRoot, outputPath,
                   scaffoldVars, compareVars, newVars, runVars>>

InputAlphabet == {"1", "2", "3", "4", "5", "6", " "}

InputLines ==
    {body \o eol : body \in SeqsUpTo(InputAlphabet, MaxInputLen),
                   eol \in {<<>>, <<"\n">>}}

\* what the user types at the prompt of the new command
AnswerAlphabet == {"y", "Y", "e", "s", "n", " "}

AnswerLines ==
    {body \o eol : body \in SeqsUpTo(AnswerAlphabet, MaxInputLen),
                   eol \in {<<>>, <<"\n">>}}

\* the build is started in the project directory or in its cmd directory
WorkingDirs == { <<"home", "demo">>, <<"home", "demo", "cmd">> }

Environments ==
    { << <<"PATH", "/usr/bin">> >>,
      << <<"GOOS", "plan9">>, <<"PATH", "/usr/bin">> >> }

\* 'shiroha build' has just been started in a project without or with a bin
\* directory
InitBuild ==
    /\ \E hasBin \in BOOLEAN :
         ScaffoldIdle(Prefixes(<<"home", "demo", "cmd">>)
                        \cup (IF hasBin THEN {<<"home", "demo", "bin">>}
                                        ELSE {}))
    /\ CompareIdle
    /\ stdin \in InputLines
    /\ cwd \in WorkingDirs
    /\ environ \in Environments
    /\ bpc = "read"
    /\ choice = <<>>
    /\ projectRoot = <<>>
    /\ outputPath = <<>>
    /\ invocations = <<>>
    /\ results = <<>>
    /\ bout = <<>>
    /\ berr = NoBuildErr
    /\ NewIdle
    /\ RunIdle

NextBuild ==
    \/ BuildReadChoice
    \/ BuildResolveRoot
    \/ BuildGetwdFail
    \/ BuildMkdirOk
    \/ BuildMkdirFail
    \/ BuildCompile

SpecBuild == InitBuild /\ [][NextBuild]_vars

(***************************************************************************)
(* The new command (cmd/new.go, newCmd.RunE): createProjectStructure, the  *)
(* prompt, and the three subprocesses started in the project directory.    *)
(***************************************************************************)
\* strings.ToLower on the letters of the answers
Lower(c) ==
    CASE c = "Y" -> "y"
      [] c = "E" -> "e"
      [] c = "S" -> "s"
      [] c = "N" -> "n"
      [] OTHER   -> c

ToLower(s) == [i \in 1..Len(s) |-> Lower(s[i])]

\* line 49: filepath.Join(".", projectName), relative to the working
\* directory of the process
ProjectDir == <<".", name>>

\* lines 53-54
TidyCall == [argv |-> <<"go", "mod", "tidy">>, dir |-> ProjectDir]

\* lines 64-65
SwagCall ==
    [argv |-> <<"swag", "init", "-g", "cmd/server.go", "-o", "docs">>,
     dir  |-> ProjectDir]

\* lines 78-79
RunCall == [argv |-> <<"go", "run", "cmd/server.go">>, dir |-> ProjectDir]

\* lines 27-29: createProjectStructure has returned an error, RunE returns
\* it
NewScaffoldFailed ==
    /\ npc = "scaffold"
    /\ pc = "error"
    /\ nerr' = [kind |-> "scaffold", err |-> err]
    /\ npc' = "failed"
    /\ UNCHANGED <<scaffoldVars, compareVars, buildVars, runVars, answer,
                   warned>>

\* lines 31-48: createProjectStructure has returned nil; the next steps and
\* the prompt are printed and one line is read; EOF before a newline is a
\* read error; the line is lowered and trimmed, and "y", "yes" and the
\* empty line go on to the subprocesses, any other line ends RunE with nil
NewPrompt ==
    /\ npc = "scaffold"
    /\ pc = "done"
    /\ \E line \in AnswerLines :
         IF ~HasNewline(line)
         THEN /\ nerr' = [kind |-> "failed to read input"]
              /\ npc' = "failed"
              /\ answer' = answer
         ELSE /\ answer' = TrimSpace(ToLower(ReadLine(line)))
              /\ npc' = IF answer' \in {<<"y">>, <<"y", "e", "s">>, <<>>}
                        THEN "tidy" ELSE "done"
              /\ nerr' = nerr
    /\ UNCHANGED <<scaffoldVars, compareVars, buildVars, runVars, warned>>

\* lines 52-60 with the error of tidyCmd.Run dropped
NewTidyFailIgnored ==
    /\ npc = "tidy"
    /\ invocations' = Append(invocations, TidyCall)
    /\ \E exit \in ExitStatuses :
         results' = Append(results, [exit |-> exit, output |-> ""])
    /\ npc' = "swag"
    /\ UNCHANGED <<scaffoldVars, compareVars, runVars, answer, warned, nerr,
                   stdin, cwd, environ, bpc, choice, projectRoot, outputPath,
                   bout, berr>>

\* lines 52-60: go mod tidy runs in the project directory; a non-zero exit
\* ends RunE with "failed to run 'go mod tidy'"
NewTidy ==
    /\ npc = "tidy"
    /\ invocations' = Append(invocations, TidyCall)
    /\ \E exit \in ExitStatuses :
         /\ results' = Append(results, [exit |-> exit, output |-> ""])
         /\ IF exit = 0
            THEN npc' = "swag" /\ nerr' = nerr
            ELSE /\ nerr' = [kind |-> "failed to run 'go mod tidy'",
                             exit |-> exit]
                 /\ npc' = "failed"
    /\ UNCHANGED <<scaffoldVars, compareVars, runVars, answer, warned,
                   stdin, cwd, environ, bpc, choice, projectRoot, outputPath,
                   bout, berr>>

\* lines 63-74 with the error of swagCmd.Run returned
NewSwagFatal ==
    /\ npc = "swag"
    /\ invocations' = Append(invocations, SwagCall)
    /\ \E exit \in ExitStatuses :
         /\ results' = Append(results, [exit |-> exit, output |-> ""])
         /\ IF exit = 0
            THEN npc' = "run" /\ nerr' = nerr
            ELSE /\ nerr' = [kind |-> "failed to generate documentation",
                             exit |-> exit]
                 /\ npc' = "failed"
    /\ UNCHANGED <<scaffoldVars, compareVars, runVars, answer, warned,
                   stdin, cwd, environ, bpc, choice, projectRoot, outputPath,
                   bout, berr>>

\* lines 63-74: swag init runs in the project directory; a non-zero exit
\* prints a warning and RunE goes on
NewSwag ==
    /\ npc = "swag"
    /\ invocations' = Append(invocations, SwagCall)
    /\ \E exit \in ExitStatuses :
         /\ results' = Append(results, [exit |-> exit, output |-> ""])
         /\ warned' = (exit # 0)
    /\ npc' = "run"
    /\ UNCHANGED <<scaffoldVars, compareVars, runVars, answer, nerr,
                   stdin, cwd, environ, bpc, choice, projectRoot, outputPath,
                   bout, berr>>

\* lines 77-87: go run cmd/server.go runs in the project directory; a
\* non-zero exit ends RunE with "failed to start project", exit 0 with nil
NewRun ==
    /\ npc = "run"
    /\ invocations' = Append(invocations, RunCall)
    /\ \E exit \in ExitStatuses :
         /\ results' = Append(results, [exit |-> exit, output |-> ""])
         /\ IF exit = 0
            THEN npc' = "done" /\ nerr' = nerr
            ELSE /\ nerr' = [kind |-> "failed to start project",
                             exit |-> exit]
                 /\ npc' = "failed"
    /\ UNCHANGED <<scaffoldVars, compareVars, runVars, answer, warned,
                   stdin, cwd, environ, bpc, choice, projectRoot, outputPath,
                   bout, berr>>

\* 'shiroha new <name>' has just been started in an empty directory
InitNew ==
    /\ name \in ProjectNames
    /\ runtimeVersion \in RuntimeVersions
    /\ pc = "dirs"
    /\ dirIdx = 1
    /\ fileIdx = 1
    /\ goVersion = <<>>
    /\ dirsOnDisk = {}
    /\ filesOnDisk = NoFiles
    /\ err = NoErr
    /\ runs = 1
    /\ faults = 0
    /\ edits = 0
    /\ startDirs = {}
    /\ startFiles = NoFiles
    /\ firstDone = NoneDone
    /\ CompareIdle
    /\ BuildIdle
    /\ RunIdle
    /\ npc = "scaffold"
    /\ answer = NoAnswer
    /\ warned = FALSE
    /\ nerr = NoBuildErr

NextNew ==
    \/ MkdirOk
    \/ MkdirFail
    \/ ResolveVersion
    \/ WriteFileOk
    \/ WriteFileFail
    \/ NewScaffoldFailed
    \/ NewPrompt
    \/ NewTidy
    \/ NewSwag
    \/ NewRun

SpecNew == InitNew /\ [][NextNew]_vars

(***************************************************************************)
(* The run command (cmd/run.go, runCmd.RunE).                              *)
(***************************************************************************)
\* the relative path of lines 21 and 25, seen from the working directory
EntryPoint == cwd \o <<"cmd", "server.go">>

\* os.Stat(p): nil for a file or a directory, ENOTDIR when a regular file
\* stands where a directory of the path should be, ENOENT otherwise
Stat(p) ==
    IF p \in dirsOnDisk \/ p \in DOMAIN filesOnDisk THEN "nil"
    ELSE IF \E k \in 1..(Len(p) - 1) : SubSeq(p, 1, k) \in DOMAIN filesOnDisk
         THEN "ENOTDIR"
         ELSE "ENOENT"

\* os.IsNotExist
IsNotExist(e) == e = "ENOENT"

\* lines 21-23: the entry point is looked up; only an error that
\* os.IsNotExist accepts ends RunE, with "cmd/server.go not found"
RunCheckEntry ==
    /\ rpc = "check"
    /\ IF IsNotExist(Stat(EntryPoint))
       THEN /\ rerr' = [kind |-> "cmd/server.go not found"]
            /\ rpc' = "failed"
       ELSE /\ rerr' = rerr
            /\ rpc' = "run"
    /\ UNCHANGED <<scaffoldVars, compareVars, buildVars, newVars>>

\* lines 25-33: go run cmd/server.go runs in the working directory; it can
\* exit with status 0 only if the entry point is a file; a non-zero exit
\* ends RunE with "failed to start project server"
RunStart ==
    /\ rpc = "run"
    /\ invocations' =
         Append(invocations,
                [argv |-> <<"go", "run", "cmd/server.go">>, dir |-> cwd])
    /\ \E exit \in IF EntryPoint \in DOMAIN filesOnDisk
                    THEN ExitStatuses ELSE ExitStatuses \ {0} :
         /\ results' = Append(results, [exit |-> exit, output |-> ""])
         /\ IF exit = 0
            THEN rpc' = "done" /\ rerr' = rerr
            ELSE /\ rerr' = [kind |-> "failed to start project server",
                             exit |-> exit]
                 /\ rpc' = "failed"
    /\ UNCHANGED <<scaffoldVars, compareVars, newVars, stdin, cwd, environ,
                   bpc, choice, projectRoot, outputPath, bout, berr>>

\* what can stand at /home/<n> when the command is started: a project, a
\* project without its entry point, a directory without cmd, a directory
\* where cmd is a regular file, a project where server.go is a directory
RunTrees(n) ==
    LET P == <<"home", n>>
    IN  { [dirs  |-> Prefixes(P \o <<"cmd">>),
           files |-> WithFile(NoFiles, P \o <<"cmd", "server.go">>,
                              Render(2, n, <<>>))],
          [dirs |-> Prefixes(P \o <<"cmd">>), files |-> NoFiles],
          [dirs |-> Prefixes(P), files |-> NoFiles],
          [dirs  |-> Prefixes(P),
           files |-> WithFile(NoFiles, P \o <<"cmd">>, Foreign)],
          [dirs |-> Prefixes(P \o <<"cmd", "server.go">>),
           files |-> NoFiles] }

\* 'shiroha run' has just been started in the project directory, in its cmd
\* directory or above it
InitRun ==
    /\ name \in ProjectNames
    /\ \E t \in RunTrees(name) :
         /\ dirsOnDisk = t.dirs
         /\ filesOnDisk = t.files
         /\ startDirs = t.dirs
         /\ startFiles = t.files
    /\ runtimeVersion = <<>>
    /\ pc = "idle"
    /\ dirIdx = 1
    /\ fileIdx = 1
    /\ goVersion = <<>>
    /\ err = NoErr
    /\ runs = 0
    /\ faults = 0
    /\ edits = 0
    /\ firstDone = NoneDone
    /\ CompareIdle
    /\ NewIdle
    /\ stdin = <<>>
    /\ cwd \in {<<"home">>, <<"home", name>>, <<"home", name, "cmd">>}
    /\ environ \in Environments
    /\ bpc = "idle"
    /\ choice = <<>>
    /\ projectRoot = <<>>
    /\ outputPath = <<>>
    /\ invocations = <<>>
    /\ results = <<>>
    /\ bout = <<>>
    /\ berr = NoBuildErr
    /\ rpc = "check"
    /\ rerr = NoBuildErr

NextRun ==
    \/ RunCheckEntry
    \/ RunStart

SpecRun == InitRun /\ [][NextRun]_vars

(***************************************************************************)
(* Properties.                                                             *)
(***************************************************************************)
\* (major, minor) pairs in lexicographic order
LexLess(p, q) == p[1] < q[1] \/ (p[1] = q[1] /\ p[2] < q[2])

LexLeq(p, q) == p = q \/ LexLess(p, q)

LexCmp(p, q) == IF p = q THEN 0 ELSE IF LexLess(p, q) THEN -1 ELSE 1

MinPair == <<1, 18>>

\* the (major, minor) the version block detects in runtime.Version()
DetectedPair == parse(TrimPrefix(runtimeVersion, GoPrefix))

\* a field that is a decimal number and nothing else
IsNumeric(f) == f # <<>> /\ \A i \in 1..Len(f) : IsDigit(f[i])

\* the detected string has two numeric fields in front
TwoNumericFields ==
    LET parts == SplitDot(TrimPrefix(runtimeVersion, GoPrefix))
    IN  Len(parts) >= 2 /\ IsNumeric(parts[1]) /\ IsNumeric(parts[2])

GoModPath == Join(name, templates[1].path)

\* the current invocation has written go.mod
GoModWritten == fileIdx > 1

\* the text after "go " in the go.mod on disk
Embedded == filesOnDisk[GoModPath].version

\* C1: the version written into go.mod is never below (1, 18), and it is
\* exactly "1.18" whenever the detected (major, minor) is below (1, 18)
C1_EmbeddedAtLeastMinimum ==
    GoModWritten =>
        /\ ~LexLess(parse(Embedded), MinPair)
        /\ LexLess(DetectedPair, MinPair) => Embedded = MinGoVersion

\* go1.9.1 was detected and go.mod says 1.18
C1_Witness ==
    /\ GoModWritten
    /\ runtimeVersion = <<"g", "o", "1", ".", "9", ".", "1">>
    /\ Embedded = MinGoVersion

\* C2: compareGoVersion returns -1, 0 or 1 as the lexicographic order of the
\* number pairs (major, minor) says
C2_CompareIsNumericLexicographic ==
    cmpResult # <<>> => cmpResult[1] = LexCmp(in1, in2)

\* 1.9 has been compared with 1.18 and judged smaller
C2_Witness ==
    /\ in1 = <<1, 9>>
    /\ in2 = <<1, 18>>
    /\ cmpResult = <<-1>>

\* C3: a detected string without two numeric fields in front yields exactly
\* the default 1.18 in go.mod, and no error
C3_MalformedYieldsDefault ==
    (GoModWritten /\ ~TwoNumericFields) =>
        (Embedded = MinGoVersion /\ err = NoErr)

\* C4: resolving a resolved version again changes nothing, and a <= b
\* implies resolve(a) <= resolve(b)
C4_IdempotentMonotonic ==
    /\ res1Again # <<>> => res1Again = res1
    /\ (res1 # <<>> /\ LexLeq(in1, in2)) => LexLeq(parse(res1), parse(res2))

\* 1.9 and 2.5 were resolved to 1.18 and 2.5, and 1.18 resolved again
C4_Witness ==
    /\ in1 = <<1, 9>>
    /\ in2 = <<2, 5>>
    /\ res1 = MinGoVersion
    /\ res2 = <<"2", ".", "5">>
    /\ res1Again = MinGoVersion

\* C6: the text in go.mod is exactly the decimal "<major>.<minor>" of the
\* resolved pair, with no other character
C6_EmbeddedIsDecimalPair ==
    GoModWritten => Embedded = VersionText(parse(goVersion))

TemplatePath(i) == Join(name, templates[i].path)

\* template file i is on disk with the content this invocation renders
Rendered(i) ==
    /\ TemplatePath(i) \in DOMAIN filesOnDisk
    /\ filesOnDisk[TemplatePath(i)] = Render(i, name, goVersion)

\* template file i is as it was when this invocation started
Untouched(i) ==
    /\ TemplatePath(i) \in DOMAIN filesOnDisk
           <=> TemplatePath(i) \in DOMAIN startFiles
    /\ TemplatePath(i) \in DOMAIN filesOnDisk
           => filesOnDisk[TemplatePath(i)] = startFiles[TemplatePath(i)]

\* C5: when createProjectStructure returns nil every MkdirAll and every
\* WriteFile has been made without error, all manifest directories and all
\* template files exist, and go.mod declares exactly the module <name>
C5_SuccessMeansComplete ==
    pc = "done" =>
        /\ err = NoErr
        /\ dirIdx = Len(dirs) + 1
        /\ fileIdx = Len(templates) + 1
        /\ \A i \in 1..Len(dirs) : Join(name, dirs[i]) \in dirsOnDisk
        /\ \A i \in 1..Len(templates) : TemplatePath(i) \in DOMAIN filesOnDisk
        /\ filesOnDisk[GoModPath].tpl = <<"go.mod">>
        /\ filesOnDisk[GoModPath].module = name

\* project "shop" has been scaffolded completely
C5_Witness ==
    /\ pc = "done"
    /\ name = "shop"
    /\ <<"shop", "sql">> \in dirsOnDisk
    /\ filesOnDisk[<<"shop", "go.mod">>].module = "shop"

\* C7: when the N-th WriteFile fails the error names the N-th file, the
\* N-1 files before it are on disk with their rendered content, the files
\* after it are untouched, and all manifest directories are there
C7_WriteFailureKeepsEarlierFiles ==
    (pc = "error" /\ err.op = "write") =>
        /\ err.path = templates[fileIdx].path
        /\ \A i \in 1..(fileIdx - 1) : Rendered(i)
        /\ \A i \in (fileIdx + 1)..Len(templates) : Untouched(i)
        /\ \A i \in 1..Len(dirs) : Join(name, dirs[i]) \in dirsOnDisk

\* the fourth write failed in a fresh tree: three files are there, the
\* last three are not
C7_Witness ==
    /\ pc = "error"
    /\ err.op = "write"
    /\ fileIdx = 4
    /\ runs = 1
    /\ TemplatePath(3) \in DOMAIN filesOnDisk
    /\ TemplatePath(5) \notin DOMAIN filesOnDisk

\* C8: when MkdirAll fails for the k-th manifest entry the error names that
\* path, the directories made before stay, no later entry has been made and
\* no file has been written
C8_MkdirFailureAborts ==
    (pc = "error" /\ err.op = "mkdir") =>
        /\ err.path = Join(name, dirs[dirIdx])
        /\ startDirs \subseteq dirsOnDisk
        /\ \A i \in 1..(dirIdx - 1) : Join(name, dirs[i]) \in dirsOnDisk
        /\ \A i \in (dirIdx + 1)..Len(dirs) :
              Join(name, dirs[i]) \in dirsOnDisk
                  => Join(name, dirs[i]) \in startDirs
        /\ filesOnDisk = startFiles
        /\ fileIdx = 1

\* the third MkdirAll failed in a fresh tree: the first two entries exist,
\* the fourth does not
C8_Witness ==
    /\ pc = "error"
    /\ err.op = "mkdir"
    /\ dirIdx = 3
    /\ runs = 1
    /\ Join(name, dirs[2]) \in dirsOnDisk
    /\ Join(name, dirs[4]) \notin dirsOnDisk

\* C9: an invocation on an existing tree fails only when the environment
\* fails (never because a directory or file is already there); when it
\* returns nil every template file holds the freshly rendered content; and
\* with the version of the first complete run the tree equals the tree
\* after that run
C9_RescaffoldOverwrites ==
    /\ pc = "error" => err.cause = "env"
    /\ pc = "done" => \A i \in 1..Len(templates) : Rendered(i)
    /\ (pc = "done" /\ goVersion = firstDone.version)
           => <<dirsOnDisk, filesOnDisk>> = firstDone.tree

\* the second run has returned nil over the complete tree of the first run,
\* in which go.mod had been overwritten by somebody else
C9_Witness ==
    /\ pc = "done"
    /\ runs = 2
    /\ firstDone.run = 1
    /\ goVersion = firstDone.version
    /\ GoModPath \in DOMAIN startFiles
    /\ startFiles[GoModPath] = Foreign
    /\ \A i \in 1..Len(dirs) : Join(name, dirs[i]) \in startDirs

\* C10: a key outside "1".."5" ends the build with the error "invalid
\* choice" naming the range 1-5, before any side effect: no compiler has
\* been started and no bin directory has been made
C10_InvalidChoiceNoSideEffect ==
    (bpc # "read" /\ berr.kind # "failed to read input"
        /\ choice \notin {<<"1">>, <<"2">>, <<"3">>, <<"4">>, <<"5">>}) =>
        /\ bpc = "failed"
        /\ berr.kind = "invalid choice"
        /\ berr.choice = choice
        /\ berr.low = 1 /\ berr.high = 5
        /\ invocations = <<>>
        /\ dirsOnDisk = startDirs
        /\ projectRoot = <<>>

\* " 6\n" was typed in a project without bin directory
C10_Witness ==
    /\ bpc = "failed"
    /\ choice = <<"6">>
    /\ berr.kind = "invalid choice"
    /\ <<"home", "demo", "bin">> \notin dirsOnDisk

(***************************************************************************)
(* The build job.                                                          *)
(***************************************************************************)
\* the file a relative argument names for a process started in dir
RECURSIVE Resolve(_, _)
Resolve(dir, rel) ==
    IF rel = <<>> THEN dir
    ELSE IF rel[1] = "." THEN Resolve(dir, Tail(rel))
    ELSE IF rel[1] = ".." THEN Resolve(Dir(dir), Tail(rel))
    ELSE Resolve(Append(dir, rel[1]), Tail(rel))

\* the value a process sees for key: of several entries for one key the
\* last one counts, "" if there is none
Getenv(env, key) ==
    LET at == {i \in 1..Len(env) : env[i][1] = key}
    IN  IF at = {} THEN ""
        ELSE env[CHOOSE i \in at : \A j \in at : j <= i][2]

BinDir == Append(projectRoot, "bin")

\* C11: once the output path is computed, the selector is one of "1".."5"
\* and the path is <projectRoot>/bin/<base(projectRoot)>, with the suffix
\* .exe exactly for selector "5", the only windows entry of the catalog.
C11_OutputPathExeIffWindows ==
    outputPath # <<>> =>
        /\ choice \in {<<"1">>, <<"2">>, <<"3">>, <<"4">>, <<"5">>}
        /\ (platforms[choice].os = "windows") <=> (choice = <<"5">>)
        /\ outputPath =
             projectRoot \o
               << "bin", [base |-> Base(projectRoot),
                          ext  |-> IF choice = <<"5">> THEN ".exe" ELSE ""] >>

C11_Witness ==
    /\ bpc = "done"
    /\ choice = <<"5">>
    /\ outputPath = <<"home", "demo", "bin", [base |-> "demo", ext |-> ".exe"]>>

\* C12: a build started in P/cmd has project root P, the output path of a
\* build started in P, and its compiler is given the entry point
\* P/cmd/server.go.
C12_BuildFromCmdSameJob ==
    (Base(cwd) = "cmd" /\ invocations # <<>>) =>
        /\ projectRoot = Dir(cwd)
        /\ Base(outputPath).base = Base(Dir(cwd))
        /\ Dir(outputPath) = Dir(cwd) \o <<"bin">>
        /\ Resolve(invocations[1].dir, invocations[1].argv[5])
             = Dir(cwd) \o <<"cmd", "server.go">>

\* C13: the compiler is started at most once and only with the bin
\* directory on disk; a failed creation of bin ends the build without a
\* compiler; a compiler that exits non-zero ends the build with an error
\* holding the exit status and the captured output; the build ends in
\* success, printing the output path, only after a compiler that exited
\* with status 0.
C13_BinThenCompileOnce ==
    /\ Len(invocations) <= 1
    /\ Len(results) <= Len(invocations)
    /\ invocations # <<>> => BinDir \in dirsOnDisk
    /\ berr.kind = "failed to create bin directory" =>
          bpc = "failed" /\ invocations = <<>>
    /\ (results # <<>> /\ results[1].exit # 0) =>
          /\ bpc = "failed"
          /\ bout = <<>>
          /\ berr = [kind |-> "build failed", exit |-> results[1].exit,
                     output |-> results[1].output]
    /\ (bpc = "done" \/ bout # <<>>) =>
          /\ Len(results) = 1
          /\ results[1].exit = 0
          /\ bout = outputPath
          /\ berr = NoBuildErr

C13_Witness ==
    /\ bpc = "failed"
    /\ BinDir \notin startDirs
    /\ Len(invocations) = 1
    /\ berr = [kind |-> "build failed", exit |-> 1, output |-> "output"]

\* C14: the environment of the compiler is the inherited environment, entry
\* for entry, followed by GOOS and GOARCH of the selected catalog entry and
\* nothing else; the values the compiler sees for GOOS and GOARCH are those
\* of the catalog entry.
C14_EnvInheritedThenOverrides ==
    \A i \in 1..Len(invocations) :
        LET env == invocations[i].env
        IN  /\ Len(env) = Len(environ) + 2
            /\ SubSeq(env, 1, Len(environ)) = environ
            /\ env[Len(environ) + 1] = <<"GOOS", platforms[choice].os>>
            /\ env[Len(environ) + 2] = <<"GOARCH", platforms[choice].arch>>
            /\ Getenv(env, "GOOS") = platforms[choice].os
            /\ Getenv(env, "GOARCH") = platforms[choice].arch

C14_Witness ==
    /\ invocations # <<>>
    /\ Getenv(environ, "GOOS") = "plan9"
    /\ Getenv(invocations[1].env, "GOOS") = "windows"

(***************************************************************************)
(* The new command.                                                        *)
(***************************************************************************)
\* the prompt of line 40 has been printed and answered
Prompted == answer # NoAnswer \/ nerr.kind = "failed to read input"

Affirmative == answer \in {<<"y">>, <<"y", "e", "s">>, <<>>}

StageCommands ==
    << <<"go", "mod", "tidy">>,
       <<"swag", "init", "-g", "cmd/server.go", "-o", "docs">>,
       <<"go", "run", "cmd/server.go">> >>

Ended == npc \in {"done", "failed"}

\* C15: the new command prompts only after the scaffold has succeeded and
\* starts subprocesses only after an affirmative answer, in the order go mod
\* tidy, swag init, go run, each at most once; a failed scaffold ends the
\* command with the scaffold's error, no prompt and no subprocess; a failed
\* go mod tidy ends it with an error and neither swag nor go run; any other
\* answer ends it in success with no subprocess.
C15_StagesInOrder ==
    /\ Len(invocations) <= 3
    /\ \A i \in 1..Len(invocations) :
          invocations[i].argv = StageCommands[i]
    /\ Prompted => pc = "done"
    /\ invocations # <<>> => (pc = "done" /\ Prompted /\ Affirmative)
    /\ pc = "error" =>
          /\ ~Prompted
          /\ invocations = <<>>
          /\ npc \in {"scaffold", "failed"}
          /\ npc = "failed" => nerr = [kind |-> "scaffold", err |-> err]
    /\ (results # <<>> /\ results[1].exit # 0) =>
          /\ npc = "failed"
          /\ nerr.kind = "failed to run 'go mod tidy'"
          /\ Len(invocations) = 1
    /\ (answer # NoAnswer /\ ~Affirmative) =>
          /\ npc = "done"
          /\ nerr = NoBuildErr
          /\ invocations = <<>>

C15_Witness ==
    /\ npc = "failed"
    /\ answer = <<>>
    /\ nerr.kind = "failed to run 'go mod tidy'"
    /\ Len(invocations) = 1

\* C16: once go mod tidy has succeeded, the new command ends only after
\* exactly one go run, started after swag init whatever the exit status of
\* swag init, and its result is that of go run alone: success for exit 0,
\* "failed to start project" otherwise.
C16_DocFailureNotFatal ==
    (Ended /\ results # <<>> /\ results[1].exit = 0) =>
        /\ Len(invocations) = 3
        /\ Len(results) = 3
        /\ Cardinality({i \in 1..Len(invocations) :
                          invocations[i].argv = StageCommands[3]}) = 1
        /\ warned <=> (results[2].exit # 0)
        /\ IF results[3].exit = 0
           THEN npc = "done" /\ nerr = NoBuildErr
           ELSE /\ npc = "failed"
                /\ nerr = [kind |-> "failed to start project",
                           exit |-> results[3].exit]

C16_Witness ==
    /\ npc = "done"
    /\ warned
    /\ Len(results) = 3
    /\ results[2].exit # 0
    /\ results[3].exit = 0

(***************************************************************************)
(* The run command.                                                        *)
(***************************************************************************)
\* C17: when cmd/server.go is not there, seen from the working directory,
\* the run command ends with an error and starts no subprocess; a
\* subprocess is started only with the entry point there; a subprocess that
\* exits non-zero ends the command with an error.
C17_MissingEntryNoSubprocess ==
    LET found == \/ EntryPoint \in dirsOnDisk
                 \/ EntryPoint \in DOMAIN filesOnDisk
    IN  /\ (~found /\ rpc \in {"done", "failed"}) =>
              (rpc = "failed" /\ invocations = <<>>)
        /\ invocations # <<>> => found
        /\ (results # <<>> /\ results[1].exit # 0) =>
              (rpc = "failed" /\ rerr.kind = "failed to start project server")

(***************************************************************************)
(* Directories before files.                                               *)
(***************************************************************************)
\* this invocation of createProjectStructure is past its directory loop
PastDirs ==
    \/ pc \in {"version", "files", "done"}
    \/ pc = "error" /\ err.op = "write"

\* C18: the directory of every template path is the project root or an
\* entry of dirs; once the directory loop is through, every entry of dirs
\* and the directory of every template file are on disk, so that no write
\* fails for a missing directory.
C18_DirsBeforeFiles ==
    /\ \A i \in 1..Len(templates) :
          \/ Parent(templates[i].path) = <<>>
          \/ \E j \in 1..Len(dirs) : dirs[j] = Parent(templates[i].path)
    /\ PastDirs =>
          /\ \A j \in 1..Len(dirs) : Join(name, dirs[j]) \in dirsOnDisk
          /\ \A i \in 1..Len(templates) :
                Parent(TemplatePath(i)) \in dirsOnDisk
    /\ pc = "error" => err.cause # "noparent"
    /\ (pc = "dirs" /\ runs = 1) => filesOnDisk = NoFiles

C18_Witness ==
    /\ pc = "files"
    /\ fileIdx = 5
    /\ Rendered(4)
    /\ Parent(TemplatePath(4)) = <<name, "internal", "router">>

====
